---- MODULE Spec2Model ----
(***************************************************************************)
(* A model of the notebook debugging core of vscode-simple-jupyter-notebook *)
(* (src/src/debugging.ts): the DebuggingManager (document -> Debugger map,  *)
(* toggleDebugging, the termination / close / factory callbacks and         *)
(* fixBreakpoints), the Debugger split promise, and the XeusDebugAdapter    *)
(* that rewrites sources between notebook cells and kernel files.           *)
(*                                                                          *)
(* The specifications share the variables:                                    *)
(*   SpecRepair  fixBreakpoints against a mutating document and store       *)
(*   SpecBridge  one XeusDebugAdapter                                        *)
(*   SpecCoord   the DebuggingManager with the host's debug service          *)
(*   SpecLaunch  the same for one document, with a session the user starts  *)
(*   SpecCommand the toggleDebugging command of the extension entry point   *)
(***************************************************************************)
EXTENDS Integers, Sequences, FiniteSets, Bags

(***************************************************************************)
(* Bounds of the model.                                                     *)
(***************************************************************************)
MaxHandle == 2
MaxCells == 3
MaxBreakpoints == 2
MaxRange == 1
MaxPending == 2
MaxSessions == 2
MaxCalls == 2

(***************************************************************************)
(* Strings.  A cell URI is vscode-notebook-cell:<document path>#<fragment>; *)
(* uri.toString() of two URIs is equal exactly when document and fragment   *)
(* are, so a URI is its parts.  A fragment is its string of decimal digits. *)
(***************************************************************************)
NaN == -1

\* Number.prototype.toString() of a non-negative integer: its decimal digits
RECURSIVE NumToString(_)
NumToString(n) == IF n < 10 THEN <<n>> ELSE Append(NumToString(n \div 10), n % 10)

\* String.prototype.padStart(width, '0')
RECURSIVE PadStart(_, _)
PadStart(s, width) == IF Len(s) >= width THEN s ELSE PadStart(<<0>> \o s, width)

\* parseInt of a string of decimal digits; NaN for the empty string
RECURSIVE ParseInt(_)
ParseInt(s) ==
  IF Len(s) = 0 THEN NaN
  ELSE IF Len(s) = 1 THEN s[1]
  ELSE ParseInt(SubSeq(s, 1, Len(s) - 1)) * 10 + s[Len(s)]

FragmentWidth == 8

\* ix.toString().padStart(8, '0')
IndexFragment(ix) == PadStart(NumToString(ix), FragmentWidth)

\* the fragment the host gives the cell with handle h
HandleFragment(h) == PadStart(NumToString(h), FragmentWidth)

Docs == {"d1", "d2"}
Handles == 0..MaxHandle
Fragments == {HandleFragment(h) : h \in Handles}
CellScheme == "vscode-notebook-cell"
Uri(d, f) == [scheme |-> CellScheme, path |-> d, fragment |-> f]
\* the path of a file of the kernel, and the absent (undefined or empty) path
FilePath(n) == [scheme |-> "file", path |-> n, fragment |-> <<>>]
NoPath == [scheme |-> "", path |-> "", fragment |-> <<>>]
CellUris == {Uri(d, f) : d \in Docs, f \in Fragments}
Ranges == 1..MaxRange

\* uri.with({ fragment })
UriWith(u, f) == [u EXCEPT !.fragment = f]

VARIABLES
  cells,          \* cells[d]: doc.cells, the fragments (handles) of d's cells in order
  nextHandle,     \* nextHandle[d]: the handle the host gives d's next new cell
  breakpoints,    \* vscode.debug.breakpoints, a bag of breakpoints
  removeCalls,    \* removeBreakpoints calls of the latest fixBreakpoints
  addCalls,       \* addBreakpoints calls of the latest fixBreakpoints
  lastRemoved,    \* the bag handed to removeBreakpoints by the latest fixBreakpoints
  lastAdded,      \* the bag handed to addBreakpoints by the latest fixBreakpoints
  storeBefore,    \* the store as the latest fixBreakpoints found it
  cellsBefore,    \* the document as the latest fixBreakpoints found it
  repairDoc,      \* the document of the latest fixBreakpoints ("" before any)
  repairsInRow,   \* fixBreakpoints calls on repairDoc since the last other step
  fileToCell,     \* XeusDebugAdapter.fileToCell: kernel file path -> cell
  cellToFile,     \* XeusDebugAdapter.cellToFile: cell address -> kernel file path
  subscribed,     \* the messageListener subscription is live
  pending,        \* handleMessage invocations suspended at an await
  seen,           \* cell addresses earlier setBreakpoints requests referred to
  lastSent,       \* the envelope the latest step sent, with the invocation it came from
  lastEmitted,    \* the message the latest step emitted, with the kernel message it came from
  lastDelivered,  \* the message the kernel stream delivered in the latest step
  lastDispatched, \* the message whose handleMessage reached lines 264-272 in the latest step
  notebookToDebugger, \* DebuggingManager.notebookToDebugger: entries [doc, dbg] in insertion order
  debuggers,          \* debuggers[n]: the n-th Debugger, its document and its session promise
  hostSessions,       \* hostSessions[n]: the host's debug session the n-th Debugger asked for
  activeDebugSession, \* vscode.debug.activeDebugSession, 0 for undefined
  calls,              \* toggleDebugging and close callbacks suspended at an await
  factories,          \* createDebugAdapterDescriptor invocations suspended at their await
  terminations,       \* termination callbacks suspended at their await
  breakpointMargin,   \* breakpointMargin[d]: metadata.breakpointMargin of d's code cells
  lastOutcome,        \* how the callback that the latest step ran ended
  activeNotebookDocument, \* vscode.notebook.activeNotebookDocument, "" for undefined
  isDebugging,        \* isDebugging[d]: kernel.isDebugging of d's kernel
  cellBreakpointMargin,   \* cellBreakpointMargin[d][f]: metadata.breakpointMargin of a cell
  cellKind,           \* cellKind[f]: the kind of the cell with fragment f
  commands,           \* commands[d]: invocations of the toggleDebugging command for d
                      \* suspended at their await
  lastCommand         \* how the command invocation that the latest step ran ended

bridgeVars == <<fileToCell, cellToFile, subscribed, pending, seen, lastSent,
                lastEmitted, lastDelivered, lastDispatched>>

repairVars == <<cells, nextHandle, breakpoints, removeCalls, addCalls, lastRemoved, lastAdded,
                storeBefore, cellsBefore, repairDoc, repairsInRow>>

coordVars == <<notebookToDebugger, debuggers, hostSessions, activeDebugSession, calls,
               factories, terminations, breakpointMargin, lastOutcome>>

commandVars == <<activeNotebookDocument, isDebugging, cellBreakpointMargin, cellKind,
                 commands, lastCommand>>

vars == <<repairVars, bridgeVars, coordVars, commandVars>>

(***************************************************************************)
(* Breakpoints.  A SourceBreakpoint has a location (uri, range) and the     *)
(* enabled flag; a FunctionBreakpoint has no location.                      *)
(***************************************************************************)
SourceBreakpoint(u, r, e) == [kind |-> "source", uri |-> u, range |-> r, enabled |-> e]
FunctionBreakpoint == [kind |-> "function", uri |-> NoPath, range |-> 0, enabled |-> TRUE]
IsSourceBreakpoint(b) == b.kind = "source"

\* the index as a fragment without the padding
UnpaddedFragment(ix) == NumToString(ix)
\* line 77: the fragment of cell.uri.with({ fragment: ix.toString().padStart(8, '0') })
NewFragment(ix) == IndexFragment(ix)

\* pos !== ix, pos = parseInt(cell.uri.fragment)
Mismatch(frag, ix) == ParseInt(frag) # ix

\* lines 72-79: the map from stale cell URI to the URI with the current index
\* (forEach in cell order; a later cell with the same URI overwrites)
StaleKeys(d, cs) == {Uri(d, cs[i]) : i \in {j \in 1..Len(cs) : Mismatch(cs[j], j - 1)}}
StaleTarget(d, cs, u) ==
  LET is == {j \in 1..Len(cs) : Mismatch(cs[j], j - 1) /\ Uri(d, cs[j]) = u}
      last == CHOOSE j \in is : \A k \in is : k <= j
  IN UriWith(u, NewFragment(last - 1))

\* lines 84-93: the breakpoints to remove
RemoveBpt(d, cs, store) ==
  LET keys == StaleKeys(d, cs)
      hit == {b \in BagToSet(store) : IsSourceBreakpoint(b) /\ b.uri \in keys}
  IN [b \in hit |-> store[b]]

\* new vscode.SourceBreakpoint(loc): enabled defaults to true
MovedBreakpoint(d, cs, b) == SourceBreakpoint(StaleTarget(d, cs, b.uri), b.range, TRUE)

\* lines 84-93: the breakpoints to add, one per removed breakpoint
AddBpts(d, cs, store) ==
  LET rem == RemoveBpt(d, cs, store)
      new == {MovedBreakpoint(d, cs, b) : b \in DOMAIN rem}
      count(n) == LET src == {b \in DOMAIN rem : MovedBreakpoint(d, cs, b) = n}
                      RECURSIVE Sum(_)
                      Sum(S) == IF S = {} THEN 0
                                ELSE LET x == CHOOSE x \in S : TRUE
                                     IN rem[x] + Sum(S \ {x})
                  IN Sum(src)
  IN [n \in new |-> count(n)]

BagSize(B) == BagCardinality(B)

\* lines 70-102: the store after fixBreakpoints(doc)
FixedStore(d, cs, store) ==
  IF StaleKeys(d, cs) = {} THEN store
  ELSE (store (-) RemoveBpt(d, cs, store)) (+) AddBpts(d, cs, store)

\* fixBreakpoints(doc), with what it handed to the store
FixBreakpointsEffect(d) ==
  LET rem == IF StaleKeys(d, cells[d]) = {} THEN EmptyBag ELSE RemoveBpt(d, cells[d], breakpoints)
      add == IF StaleKeys(d, cells[d]) = {} THEN EmptyBag ELSE AddBpts(d, cells[d], breakpoints)
  IN /\ breakpoints' = FixedStore(d, cells[d], breakpoints)
     /\ removeCalls' = IF BagSize(rem) > 0 THEN 1 ELSE 0
     /\ addCalls' = IF BagSize(add) > 0 THEN 1 ELSE 0
     /\ lastRemoved' = rem
     /\ lastAdded' = add
     /\ storeBefore' = breakpoints
     /\ cellsBefore' = cells
     /\ repairsInRow' = IF repairDoc = d /\ repairsInRow < 2 THEN repairsInRow + 1
                        ELSE IF repairDoc = d THEN 2 ELSE 1
     /\ repairDoc' = d

NoRepair == /\ removeCalls' = 0 /\ addCalls' = 0
            /\ lastRemoved' = EmptyBag /\ lastAdded' = EmptyBag
            /\ storeBefore' = breakpoints /\ cellsBefore' = cells
            /\ repairDoc' = "" /\ repairsInRow' = 0


(***************************************************************************)
(* Debug protocol messages.  A message is its type, its command (or event), *)
(* the success flag of a response, and the one source it carries: the       *)
(* source's path (NoPath when the message has no source, or a source with   *)
(* no path) and display name.  A display name is a base name and the cell   *)
(* number of its ", Cell <n>" suffix, 0 when it has no suffix.               *)
(***************************************************************************)
Name(b, n) == [base |-> b, cell |-> n]
NoName == Name("", 0)
Message(t, c, ok, p, n) == [type |-> t, command |-> c, success |-> ok, path |-> p, name |-> n]

\* the visitor without the setBreakpoints case of a request
VisitsNoSetBreakpoints(msg) ==
  \/ /\ msg.type = "event"
     /\ msg.command \in {"output", "loadedSource", "breakpoint"}
  \/ /\ msg.type = "request"
     /\ msg.command \in {"breakpointLocations", "source", "gotoTargets"}
  \/ /\ msg.type = "response"
     /\ msg.success
     /\ msg.command \in {"stackTrace", "loadedSources", "scopes", "setFunctionBreakpoints",
                         "setBreakpoints"}
\* lines 297-360: whether visitSources calls the hook on the message's source
Visits(msg) ==
  \/ /\ msg.type = "event"
     /\ msg.command \in {"output", "loadedSource", "breakpoint"}
  \/ /\ msg.type = "request"
     /\ msg.command \in {"setBreakpoints", "breakpointLocations", "source", "gotoTargets"}
  \/ /\ msg.type = "response"
     /\ msg.success
     /\ msg.command \in {"stackTrace", "loadedSources", "scopes", "setFunctionBreakpoints",
                         "setBreakpoints"}

\* path.basename(cell.uri.path): the documents are /work/nb1.ipynb and /work/nb2.ipynb
BaseName(d) == IF d = "d1" THEN "nb1.ipynb" ELSE IF d = "d2" THEN "nb2.ipynb" ELSE d

\* cell.notebook.cells.indexOf(cell): 0-based, -1 when the cell left its document
IndexOfCell(cs, u) ==
  IF \E i \in 1..Len(cs[u.path]) : cs[u.path][i] = u.fragment
  THEN (CHOOSE i \in 1..Len(cs[u.path]) : cs[u.path][i] = u.fragment) - 1
  ELSE -1

\* the rewrite that names the cell by its 0-based index
RewriteToEditorZeroBased(msg, f2c, cs) ==
  IF Visits(msg) /\ msg.path # NoPath /\ msg.path \in DOMAIN f2c
  THEN [msg EXCEPT !.name = Name(BaseName(f2c[msg.path].path), IndexOfCell(cs, f2c[msg.path])),
                   !.path = f2c[msg.path]]
  ELSE msg
\* the rewrite that names every visited source, mapped or not
RewriteToEditorAlways(msg, f2c, cs) ==
  IF Visits(msg) /\ msg.path # NoPath
  THEN IF msg.path \in DOMAIN f2c
       THEN [msg EXCEPT !.name = Name(BaseName(f2c[msg.path].path), IndexOfCell(cs, f2c[msg.path]) + 1),
                        !.path = f2c[msg.path]]
       ELSE [msg EXCEPT !.name = Name(msg.path.path, 0)]
  ELSE msg
\* lines 224-237: map Sources from Xeus to VS Code
RewriteToEditor(msg, f2c, cs) ==
  IF Visits(msg) /\ msg.path # NoPath /\ msg.path \in DOMAIN f2c
  THEN LET cell == f2c[msg.path]
           cellIndex == IndexOfCell(cs, cell)
       IN [msg EXCEPT !.name = Name(BaseName(cell.path), IF cellIndex >= 0 THEN cellIndex + 1 ELSE 0),
                      !.path = cell]
  ELSE msg

\* a message sent on as it came
RewriteToKernelNever(msg, c2f) == msg
\* lines 254-262: map Source paths from VS Code to Xeus
RewriteToKernel(msg, c2f) ==
  IF Visits(msg) /\ msg.path # NoPath /\ msg.path \in DOMAIN c2f
  THEN [msg EXCEPT !.path = c2f[msg.path]]
  ELSE msg

\* a filter that lets every kernel message through
isDebugMessageAll(k) == TRUE
\* lines 190-197
debugEvents == {"debug_request", "debug_reply", "debug_event"}
\* lines 196-197
isDebugMessage(k) == k.msg_type \in debugEvents

\* lines 247-249: the setBreakpoints requests handleMessage intercepts
Intercepts(msg) ==
  /\ msg.type = "request"
  /\ msg.command = "setBreakpoints"
  /\ msg.path # NoPath
  /\ msg.path.scheme = CellScheme

\* the document of the adapter
notebookDocument == "d1"

\* the lookup that finds nothing for an address cellToFile already maps
CellFoundUnmapped(u) ==
  /\ u.path = notebookDocument
  /\ \E i \in 1..Len(cells[notebookDocument]) : cells[notebookDocument][i] = u.fragment
  /\ u \notin DOMAIN cellToFile
\* line 283: the cell of the document with that address
CellFound(u) ==
  /\ u.path = notebookDocument
  /\ \E i \in 1..Len(cells[notebookDocument]) : cells[notebookDocument][i] = u.fragment

Files == {FilePath("f1"), FilePath("f2")}
LibPath == FilePath("lib")
NoSent == [overtook |-> FALSE, envelope |-> "", msg |-> Message("", "", FALSE, NoPath, NoName),
           orig |-> Message("", "", FALSE, NoPath, NoName), dumps |-> 0, outcome |-> "",
           reply |-> NoPath, first |-> FALSE]
NoEmitted == [kernel |-> "", orig |-> Message("", "", FALSE, NoPath, NoName),
              msg |-> Message("", "", FALSE, NoPath, NoName)]

NoDispatched == [msg |-> Message("", "", FALSE, NoPath, NoName), sends |-> 0]
NoDelivered == [msg_type |-> "", content |-> Message("", "", FALSE, NoPath, NoName)]

EmptyMap == [x \in {} |-> NoPath]
\* Map.prototype.set
MapSet(m, k, v) == [x \in DOMAIN m \cup {k} |-> IF x = k THEN v ELSE m[x]]

BridgeIdle ==
  /\ fileToCell = EmptyMap /\ cellToFile = EmptyMap
  /\ subscribed = FALSE
  /\ pending = {}
  /\ seen = {}
  /\ lastSent = NoSent
  /\ lastEmitted = NoEmitted
  /\ lastDelivered = NoDelivered
  /\ lastDispatched = NoDispatched

(***************************************************************************)
(* The DebuggingManager before any toggleDebugging.  A Debugger is numbered *)
(* by its creation; the debug session the host creates for its start        *)
(* request carries the same number.  One more session, numbered after      *)
(* them, is the one a user starts from a launch configuration of type xeus  *)
(* that names document d1.                                                  *)
(***************************************************************************)
DebuggerIds == 1..MaxSessions
UserSession == MaxSessions + 1
SessionIds == DebuggerIds \cup {UserSession}
UserSessionDocument == "d1"
NoDebugger == [document |-> "", state |-> "none", handle |-> 0]
NoOutcome == [kind |-> "", doc |-> "", session |-> 0, matched |-> "", outcome |-> "",
              dbg |-> 0, before |-> NoDebugger, errors |-> 0]

CoordIdle ==
  /\ notebookToDebugger = <<>>
  /\ debuggers = [n \in DebuggerIds |-> NoDebugger]
  /\ hostSessions = [n \in SessionIds |-> "none"]
  /\ activeDebugSession = 0
  /\ calls = {}
  /\ factories = {}
  /\ terminations = {}
  /\ breakpointMargin = [d \in Docs |-> FALSE]
  /\ lastOutcome = NoOutcome

(***************************************************************************)
(* The toggleDebugging command before its first invocation: no document is  *)
(* active, no kernel is debugging, no cell shows the margin.                *)
(***************************************************************************)
CellKinds == {"Code", "Markdown"}
NoCommand == [doc |-> "", outcome |-> "", starts |-> 0, stops |-> 0, errors |-> 0]

CommandIdle ==
  /\ activeNotebookDocument = ""
  /\ isDebugging = [d \in Docs |-> FALSE]
  /\ cellBreakpointMargin = [d \in Docs |-> [f \in Fragments |-> FALSE]]
  /\ cellKind = [f \in Fragments |-> "Code"]
  /\ commands = [d \in Docs |-> 0]
  /\ lastCommand = NoCommand

(***************************************************************************)
(* SpecRepair: fixBreakpoints on document d1, the host editing the cells    *)
(* and the user editing the breakpoints.                                    *)
(***************************************************************************)
RepairDocs == {"d1"}

DistinctSeqs(S, n) ==
  {s \in UNION {[1..k -> S] : k \in 0..n} : \A i, j \in DOMAIN s : i # j => s[i] # s[j]}

\* what the user may set: enabled breakpoints in cells of d1 and in one cell of
\* d2, one disabled breakpoint, one function breakpoint
UserBreakpoints ==
  {SourceBreakpoint(u, r, TRUE) : u \in {Uri("d1", f) : f \in Fragments} \cup {Uri("d2", HandleFragment(1))},
                                  r \in Ranges}
    \cup {SourceBreakpoint(Uri("d1", HandleFragment(1)), 1, FALSE), FunctionBreakpoint}

InitRepair ==
  /\ cells \in [Docs -> DistinctSeqs(Fragments, MaxCells)]
  /\ cells["d2"] = <<>>
  /\ nextHandle = [d \in Docs |-> MaxHandle]
  /\ \A i \in 1..Len(cells["d1"]) : ParseInt(cells["d1"][i]) < MaxHandle
  /\ breakpoints = EmptyBag
  /\ removeCalls = 0 /\ addCalls = 0
  /\ lastRemoved = EmptyBag /\ lastAdded = EmptyBag
  /\ storeBefore = EmptyBag /\ cellsBefore = cells
  /\ repairDoc = "" /\ repairsInRow = 0
  /\ BridgeIdle
  /\ CoordIdle
  /\ CommandIdle

\* the host deletes a cell
DeleteCell(d, i) ==
  /\ i \in 1..Len(cells[d])
  /\ cells' = [cells EXCEPT ![d] = SubSeq(@, 1, i - 1) \o SubSeq(@, i + 1, Len(@))]
  /\ breakpoints' = breakpoints
  /\ NoRepair
  /\ nextHandle' = nextHandle

\* the host moves a cell to the end
MoveCell(d, i) ==
  /\ i \in 1..(Len(cells[d]) - 1)
  /\ cells' = [cells EXCEPT ![d] = SubSeq(@, 1, i - 1) \o SubSeq(@, i + 1, Len(@)) \o <<@[i]>>]
  /\ breakpoints' = breakpoints
  /\ NoRepair
  /\ nextHandle' = nextHandle

\* the host inserts a new cell, with the next handle, in front
InsertCell(d) ==
  /\ Len(cells[d]) < MaxCells
  /\ nextHandle[d] <= MaxHandle
  /\ cells' = [cells EXCEPT ![d] = <<HandleFragment(nextHandle[d])>> \o @]
  /\ nextHandle' = [nextHandle EXCEPT ![d] = @ + 1]
  /\ breakpoints' = breakpoints
  /\ NoRepair

\* the user sets a breakpoint
UserAddBreakpoint(b) ==
  /\ BagSize(breakpoints) < MaxBreakpoints
  /\ breakpoints' = breakpoints (+) SetToBag({b})
  /\ UNCHANGED <<cells, nextHandle>>
  /\ NoRepair

\* the user clears a breakpoint
UserRemoveBreakpoint(b) ==
  /\ BagIn(b, breakpoints)
  /\ breakpoints' = breakpoints (-) SetToBag({b})
  /\ UNCHANGED <<cells, nextHandle>>
  /\ NoRepair

\* fixBreakpoints(doc) as a step
FixBreakpoints(d) ==
  /\ FixBreakpointsEffect(d)
  /\ UNCHANGED <<cells, nextHandle>>

NextRepair ==
  /\ \/ \E d \in RepairDocs, i \in 1..MaxCells : DeleteCell(d, i)
     \/ \E d \in RepairDocs, i \in 1..MaxCells : MoveCell(d, i)
     \/ \E d \in RepairDocs : InsertCell(d)
     \/ \E b \in UserBreakpoints : UserAddBreakpoint(b)
     \/ \E b \in UserBreakpoints : UserRemoveBreakpoint(b)
     \/ \E d \in RepairDocs : FixBreakpoints(d)
  /\ UNCHANGED bridgeVars
  /\ UNCHANGED <<coordVars, commandVars>>

SpecRepair == InitRepair /\ [][NextRepair]_vars

(***************************************************************************)
(* Claims about fixBreakpoints, checked under SpecRepair.                   *)
(***************************************************************************)

\* C2: breakpoint repair is idempotent: a second fixBreakpoints(doc) right after
\* a first, with no change of the document or the store in between, issues no
\* removeBreakpoints and no addBreakpoints and leaves the store as the first
\* call left it.
C2_RepairIdempotent ==
  repairsInRow = 2 =>
    /\ removeCalls = 0
    /\ addCalls = 0
    /\ breakpoints = storeBefore

\* the cells of the repaired document whose fragment is not their index
StaleIndexes == {i \in 1..Len(cellsBefore[repairDoc]) : ParseInt(cellsBefore[repairDoc][i]) # i - 1}
IsStaleBreakpoint(b) ==
  /\ b.kind = "source"
  /\ \E i \in StaleIndexes : b.uri = Uri(repairDoc, cellsBefore[repairDoc][i])
\* the address a stale breakpoint must move to: same document, a fragment of 8
\* digits whose value is the current index of its cell
IsRepairedLocation(b, n) ==
  /\ n.kind = "source"
  /\ n.range = b.range
  /\ n.uri.path = b.uri.path /\ n.uri.scheme = b.uri.scheme
  /\ Len(n.uri.fragment) = 8
  /\ \E i \in StaleIndexes : /\ b.uri = Uri(repairDoc, cellsBefore[repairDoc][i])
                              /\ ParseInt(n.uri.fragment) = i - 1
UntouchedBefore == [b \in {x \in BagToSet(storeBefore) : ~IsStaleBreakpoint(x)} |-> storeBefore[b]]
StaleBefore == [b \in {x \in BagToSet(storeBefore) : IsStaleBreakpoint(x)} |-> storeBefore[b]]
RECURSIVE BagSum(_, _)
BagSum(B, S) == IF S = {} THEN 0
                ELSE LET x == CHOOSE x \in S : TRUE IN B[x] + BagSum(B, S \ {x})

\* C10: one fixBreakpoints(doc) removes every source breakpoint at the URI of a
\* cell whose fragment differs from its index and puts one breakpoint with the
\* same range at that URI with the fragment the 8-digit zero-padded index; it
\* leaves every other breakpoint alone, and issues at most one batched remove
\* and one batched add, of equally many breakpoints.
C10_RepairTransformsStore ==
  repairDoc # "" =>
    LET new == breakpoints (-) UntouchedBefore
    IN /\ UntouchedBefore \sqsubseteq breakpoints
       /\ lastRemoved = StaleBefore
       /\ \A n \in BagToSet(new) :
            new[n] = BagSum(StaleBefore, {b \in BagToSet(StaleBefore) : IsRepairedLocation(b, n)})
       /\ BagCardinality(new) = BagCardinality(StaleBefore)
       /\ removeCalls <= 1 /\ addCalls <= 1
       /\ removeCalls = (IF BagCardinality(StaleBefore) > 0 THEN 1 ELSE 0)
       /\ BagCardinality(lastRemoved) = BagCardinality(lastAdded)

\* a repair that moved one breakpoint to another fragment and left another one alone
C10_Witness ==
  /\ repairDoc = "d1"
  /\ BagCardinality(lastRemoved) = 1
  /\ BagCardinality(lastAdded) = 1
  /\ BagCardinality(UntouchedBefore) = 1
  /\ \E b \in BagToSet(lastRemoved), n \in BagToSet(lastAdded) :
        n.range = b.range /\ n.uri.fragment # b.uri.fragment

(***************************************************************************)
(* SpecBridge: one XeusDebugAdapter for document d1, the editor calling     *)
(* handleMessage, the session answering dumpCell, the kernel stream         *)
(* delivering messages, the host editing the cells.                        *)
(***************************************************************************)
Cell0 == Uri("d1", HandleFragment(0))
Cell1 == Uri("d1", HandleFragment(1))
EditorName == Name("editor", 0)
KernelName == Name("kernel", 0)

EditorMessages ==
  {Message("request", "setBreakpoints", FALSE, p, EditorName) : p \in {Cell0, Cell1, LibPath}}
    \cup {Message("request", "source", FALSE, Cell0, EditorName),
          Message("response", "runInTerminal", TRUE, NoPath, NoName),
          Message("event", "output", FALSE, Cell0, EditorName)}

KernelContents ==
  {Message("event", "loadedSource", FALSE, FilePath("f1"), KernelName),
   Message("response", "stackTrace", TRUE, FilePath("f1"), KernelName),
   Message("response", "setDataBreakpoints", TRUE, FilePath("f1"), KernelName),
   Message("request", "runInTerminal", FALSE, NoPath, NoName)}
EnvelopeOf(c) == IF c.type = "event" THEN "debug_event"
                 ELSE IF c.type = "response" THEN "debug_reply" ELSE "debug_request"
KernelMessages ==
  {[msg_type |-> EnvelopeOf(c), content |-> c] : c \in KernelContents}
    \cup {[msg_type |-> "status", content |-> Message("event", "loadedSource", FALSE, FilePath("f1"), KernelName)]}

InitBridge ==
  /\ cells = [d \in Docs |-> IF d = "d1" THEN <<HandleFragment(0), HandleFragment(1)>> ELSE <<>>]
  /\ nextHandle = [d \in Docs |-> 2]
  /\ breakpoints = EmptyBag
  /\ removeCalls = 0 /\ addCalls = 0
  /\ lastRemoved = EmptyBag /\ lastAdded = EmptyBag
  /\ storeBefore = EmptyBag /\ cellsBefore = cells
  /\ repairDoc = "" /\ repairsInRow = 0
  /\ fileToCell = EmptyMap /\ cellToFile = EmptyMap
  /\ subscribed = TRUE
  /\ pending = {}
  /\ seen = {}
  /\ lastSent = NoSent
  /\ lastEmitted = NoEmitted
  /\ lastDelivered = NoDelivered
  /\ lastDispatched = NoDispatched
  /\ CoordIdle
  /\ CommandIdle

\* a step that neither sends to the kernel nor emits to the editor
NoOutput == /\ lastSent' = NoSent /\ lastEmitted' = NoEmitted
            /\ lastDelivered' = NoDelivered /\ lastDispatched' = NoDispatched

\* an invocation of handleMessage(m), the rank-th oldest of those suspended
Invocation(rank, m) ==
  [rank |-> rank, msg |-> m,
   pc |-> IF CellFound(m.path) THEN "dumpCell" ELSE "resume",
   cell |-> IF CellFound(m.path) THEN m.path ELSE NoPath,
   dumps |-> IF Intercepts(m) /\ CellFound(m.path) THEN 1 ELSE 0,
   outcome |-> IF ~Intercepts(m) THEN "" ELSE IF CellFound(m.path) THEN "" ELSE "nocell",
   reply |-> NoPath,
   first |-> m.path \notin seen]

\* the envelope of debugRequest / debugResponse
Sent(r, envelope) ==
  [overtook |-> \E q \in pending : q.rank < r.rank, envelope |-> envelope, msg |-> RewriteToKernel(r.msg, cellToFile),
   orig |-> r.msg, dumps |-> r.dumps, outcome |-> r.outcome, reply |-> r.reply,
   first |-> r.first]

\* a dispatch that sends a message of any other type as a request
DispatchAll(r) ==
  /\ lastSent' = Sent(r, IF r.msg.type = "response" THEN "debug_reply" ELSE "debug_request")
  /\ lastDispatched' = [msg |-> r.msg, sends |-> 1]
\* lines 254-272: rewrite the sources, then send by message type; a message
\* of another type fails the console.assert, which logs
Dispatch(r) ==
  IF r.msg.type = "request"
  THEN /\ lastSent' = Sent(r, "debug_request")
       /\ lastDispatched' = [msg |-> r.msg, sends |-> 1]
  ELSE IF r.msg.type = "response"
       THEN /\ lastSent' = Sent(r, "debug_reply")
            /\ lastDispatched' = [msg |-> r.msg, sends |-> 1]
       ELSE /\ lastSent' = NoSent
            /\ lastDispatched' = [msg |-> r.msg, sends |-> 0]

\* no handleMessage has its continuation queued as a microtask (its
\* dumpCell is over); only then does the host make the next call or deliver
\* the next result or message
BridgeQuiescent == \A p \in pending : p.pc # "resume"

\* lines 243-273 up to the first await: handleMessage(m)
HandleMessage(m) ==
  /\ BridgeQuiescent
  /\ subscribed
  /\ Cardinality(pending) < MaxPending
  /\ seen' = IF Intercepts(m) THEN seen \cup {m.path} ELSE seen
  /\ IF Intercepts(m)
     THEN /\ pending' = pending \cup {Invocation(Cardinality(pending) + 1, m)}
          /\ lastSent' = NoSent /\ lastDispatched' = NoDispatched
     ELSE /\ Dispatch(Invocation(Cardinality(pending) + 1, m))
          /\ UNCHANGED pending
  /\ lastEmitted' = NoEmitted /\ lastDelivered' = NoDelivered
  /\ UNCHANGED <<fileToCell, cellToFile, subscribed>>
  /\ UNCHANGED repairVars

\* lines 286-288: the dumpCell request returns sourcePath f
DumpCellReply(p, f) ==
  /\ BridgeQuiescent
  /\ p \in pending
  /\ p.pc = "dumpCell"
  /\ fileToCell' = MapSet(fileToCell, f, p.cell)
  /\ cellToFile' = MapSet(cellToFile, p.cell, f)
  /\ pending' = (pending \ {p}) \cup {[p EXCEPT !.pc = "resume", !.outcome = "ok", !.reply = f]}
  /\ NoOutput
  /\ UNCHANGED <<subscribed, seen>>
  /\ UNCHANGED repairVars

\* lines 289-291: the dumpCell request throws
DumpCellThrow(p) ==
  /\ BridgeQuiescent
  /\ p \in pending
  /\ p.pc = "dumpCell"
  /\ pending' = (pending \ {p}) \cup {[p EXCEPT !.pc = "resume", !.outcome = "failed"]}
  /\ NoOutput
  /\ UNCHANGED <<fileToCell, cellToFile, subscribed, seen>>
  /\ UNCHANGED repairVars

\* lines 254-272, after await this.dumpCell(...) returned
ResumeHandleMessage(p) ==
  /\ p \in pending
  /\ p.pc = "resume"
  /\ pending' = {IF q.rank > p.rank THEN [q EXCEPT !.rank = @ - 1] ELSE q : q \in pending \ {p}}
  /\ Dispatch(p)
  /\ lastEmitted' = NoEmitted /\ lastDelivered' = NoDelivered
  /\ UNCHANGED <<fileToCell, cellToFile, subscribed, seen>>
  /\ UNCHANGED repairVars

\* lines 217-240: the kernel stream delivers k
KernelDeliver(k) ==
  /\ BridgeQuiescent
  /\ lastEmitted' = IF subscribed /\ isDebugMessage(k)
                    THEN [kernel |-> k.msg_type, orig |-> k.content,
                          msg |-> RewriteToEditor(k.content, fileToCell, cells)]
                    ELSE NoEmitted
  /\ lastDelivered' = k
  /\ lastSent' = NoSent /\ lastDispatched' = NoDispatched
  /\ UNCHANGED <<fileToCell, cellToFile, subscribed, pending, seen>>
  /\ UNCHANGED repairVars

\* lines 275-277
Dispose ==
  /\ BridgeQuiescent
  /\ subscribed
  /\ subscribed' = FALSE
  /\ NoOutput
  /\ UNCHANGED <<fileToCell, cellToFile, pending, seen>>
  /\ UNCHANGED repairVars

\* the host edits the document of the adapter: it deletes or moves a cell
EditCells ==
  /\ BridgeQuiescent
  /\ \/ \E i \in 1..MaxCells : DeleteCell(notebookDocument, i)
     \/ \E i \in 1..MaxCells : MoveCell(notebookDocument, i)
  /\ NoOutput
  /\ UNCHANGED <<fileToCell, cellToFile, subscribed, pending, seen>>

NextBridge ==
  /\ \/ \E m \in EditorMessages : HandleMessage(m)
     \/ \E p \in pending, f \in Files : DumpCellReply(p, f)
     \/ \E p \in pending : DumpCellThrow(p)
     \/ \E p \in pending : ResumeHandleMessage(p)
     \/ \E k \in KernelMessages : KernelDeliver(k)
     \/ Dispose
     \/ EditCells
  /\ UNCHANGED <<coordVars, commandVars>>

SpecBridge == InitBridge /\ [][NextBridge]_vars

(***************************************************************************)
(* Claims about the XeusDebugAdapter, checked under SpecBridge.             *)
(***************************************************************************)

\* C3: cellToFile and fileToCell are inverse to each other: every
\* cellAddress -> fileId entry has the fileId -> cell entry of that same cell,
\* and every fileId -> cell entry has the entry of cellToFile that maps the
\* cell's address back to that fileId.
C3_Bijection ==
  /\ \A c \in DOMAIN cellToFile :
       cellToFile[c] \in DOMAIN fileToCell /\ fileToCell[cellToFile[c]] = c
  /\ \A f \in DOMAIN fileToCell :
       fileToCell[f] \in DOMAIN cellToFile /\ cellToFile[fileToCell[f]] = f

\* the latest step sent a setBreakpoints request that named a cell address no
\* earlier setBreakpoints request had named
SentFirstReference ==
  /\ lastSent # NoSent
  /\ lastSent.orig.type = "request"
  /\ lastSent.orig.command = "setBreakpoints"
  /\ lastSent.orig.path.scheme = CellScheme
  /\ lastSent.first

\* C6 as stated: a setBreakpoints request for a never-seen cell address issues
\* exactly one dumpCell request and reaches the kernel after it completed,
\* carrying the file path the materialization returned.
C6_FirstReferenceMaterialized ==
  SentFirstReference =>
    /\ lastSent.dumps = 1
    /\ lastSent.outcome = "ok"
    /\ lastSent.msg.path = lastSent.reply

\* C6 as the code has it: a setBreakpoints request for a never-seen cell
\* address reaches the kernel only once its dumpCell has settled; it issued one
\* dumpCell request when the address is of a cell of the document and none
\* otherwise; after a successful dumpCell it carries the file path that
\* dumpCell returned, which cellToFile holds for the address; after a failed
\* or skipped one it carries the path cellToFile holds for the address, and
\* with no path held it carries the cell address.
C6_FirstReferenceSettled ==
  SentFirstReference =>
    /\ lastSent.envelope = "debug_request"
    /\ lastSent.outcome \in {"ok", "failed", "nocell"}
    /\ lastSent.dumps = (IF lastSent.outcome = "nocell" THEN 0 ELSE 1)
    /\ lastSent.outcome = "ok" =>
         /\ lastSent.reply \in Files
         /\ lastSent.orig.path \in DOMAIN cellToFile
         /\ lastSent.msg.path = lastSent.reply
    /\ lastSent.msg.path = (IF lastSent.orig.path \in DOMAIN cellToFile
                            THEN cellToFile[lastSent.orig.path] ELSE lastSent.orig.path)
    /\ lastSent.msg.name = lastSent.orig.name

\* a first reference whose materialization succeeded and whose path was sent
C6_Witness ==
  /\ SentFirstReference
  /\ lastSent.outcome = "ok"
  /\ lastSent.dumps = 1
  /\ lastSent.msg.path = lastSent.reply
  /\ lastSent.reply \in Files

\* the address is of a cell that is in the adapter's document now
InDocument(u) == u.path = "d1" /\ \E i \in 1..Len(cells["d1"]) : cells["d1"][i] = u.fragment
\* the invocation the step began, if it began one that suspends
NewInvocations == {p \in pending' : Cardinality(pending') > Cardinality(pending)
                                    /\ p.rank = Cardinality(pending')}
MappingsKept ==
  /\ DOMAIN cellToFile \subseteq DOMAIN cellToFile'
  /\ DOMAIN fileToCell \subseteq DOMAIN fileToCell'

\* C7 as stated: a cell is materialized on its first reference only: a
\* setBreakpoints request for an address cellToFile already maps issues no
\* dumpCell request, one for an address not seen before does, and no entry of
\* the mappings is ever removed.
C7_MaterializedOnce ==
  [][/\ \A p \in NewInvocations :
          /\ p.msg.path \in DOMAIN cellToFile => p.dumps = 0
          /\ (p.first /\ InDocument(p.msg.path)) => p.dumps = 1
     /\ MappingsKept]_vars

\* C7 as the code has it: every setBreakpoints request for the address of a
\* cell of the document issues a dumpCell request, mapped already or not (and
\* none is issued for an address of no cell of the document), and no entry of
\* the mappings is ever removed.
C7_MaterializedEveryTime ==
  [][/\ \A p \in NewInvocations : p.dumps = (IF InDocument(p.msg.path) THEN 1 ELSE 0)
     /\ MappingsKept]_vars

\* a dumpCell request is out for an address that was referred to before and is
\* mapped
C7_Witness ==
  \E p \in pending : /\ p.pc = "dumpCell"
                     /\ p.dumps = 1
                     /\ ~p.first
                     /\ p.cell \in DOMAIN cellToFile

\* C8: a source whose path the relevant mapping has no entry for (cellToFile
\* towards the kernel, fileToCell towards the editor) goes out with its path
\* and name as they came, and the rewrite changes neither mapping.
C8_UnmappedPassthrough ==
  [][/\ lastSent' # NoSent =>
          /\ cellToFile' = cellToFile /\ fileToCell' = fileToCell
          /\ lastSent'.orig.path \notin DOMAIN cellToFile =>
               /\ lastSent'.msg.path = lastSent'.orig.path
               /\ lastSent'.msg.name = lastSent'.orig.name
     /\ lastEmitted' # NoEmitted =>
          /\ cellToFile' = cellToFile /\ fileToCell' = fileToCell
          /\ lastEmitted'.orig.path \notin DOMAIN fileToCell =>
               /\ lastEmitted'.msg.path = lastEmitted'.orig.path
               /\ lastEmitted'.msg.name = lastEmitted'.orig.name]_vars

\* a request went to the kernel with the cell address it came with, other
\* cells being mapped
C8_Witness ==
  /\ lastSent # NoSent
  /\ lastSent.orig.path.scheme = CellScheme
  /\ lastSent.orig.path \notin DOMAIN cellToFile
  /\ DOMAIN cellToFile # {}
  /\ lastSent.msg = lastSent.orig

\* the source positions of the visitor's table
IsVisitedSource(m) ==
  \/ m.type = "event" /\ m.command \in {"output", "loadedSource", "breakpoint"}
  \/ m.type = "request" /\ m.command \in {"setBreakpoints", "breakpointLocations", "source",
                                         "gotoTargets"}
  \/ m.type = "response" /\ m.success
       /\ m.command \in {"stackTrace", "loadedSources", "scopes", "setFunctionBreakpoints",
                         "setBreakpoints"}
\* the latest step emitted a kernel message whose source path is a file a cell
\* was materialized to
EmittedMapped == lastEmitted # NoEmitted /\ lastEmitted.orig.path \in DOMAIN fileToCell
NameOfDocument(d) == IF d = "d1" THEN "nb1.ipynb" ELSE "nb2.ipynb"

\* C9 as stated: every kernel message with a source at a materialized file f
\* is emitted with the cell's address as source.path and "<base name>, Cell
\* <n>" as source.name, n the cell's 1-based index in its document then.
C9_AddressRoundTrip ==
  EmittedMapped =>
    LET c == fileToCell[lastEmitted.orig.path]
    IN /\ lastEmitted.msg.path = c
       /\ \E n \in 1..Len(cells[c.path]) :
            /\ cells[c.path][n] = c.fragment
            /\ lastEmitted.msg.name = Name(NameOfDocument(c.path), n)

\* C9 as the code has it: when the source is at a position the visitor
\* visits, the message is emitted with the address of the cell fileToCell
\* holds for f and the name "<base name>, Cell <n>", n the cell's 1-based
\* index then, or the base name alone when the cell has left the document; a
\* source at any other position is emitted as it came.
C9_AddressRoundTripVisited ==
  EmittedMapped =>
    LET c == fileToCell[lastEmitted.orig.path]
    IN IF IsVisitedSource(lastEmitted.orig)
       THEN /\ lastEmitted.msg.path = c
            /\ \/ \E n \in 1..Len(cells[c.path]) :
                    /\ cells[c.path][n] = c.fragment
                    /\ lastEmitted.msg.name = Name(NameOfDocument(c.path), n)
               \/ /\ \A n \in 1..Len(cells[c.path]) : cells[c.path][n] # c.fragment
                  /\ lastEmitted.msg.name = Name(NameOfDocument(c.path), 0)
       ELSE lastEmitted.msg = lastEmitted.orig

\* the cell created second in the document is named "Cell 1" after the cell in
\* front of it went
C9_Witness ==
  /\ EmittedMapped
  /\ fileToCell[lastEmitted.orig.path] = Cell1
  /\ lastEmitted.msg.path = Cell1
  /\ lastEmitted.msg.name = Name("nb1.ipynb", 1)

(***************************************************************************)
(* The DebuggingManager and the Debugger.  notebookToDebugger is a Map: its *)
(* entries keep their insertion order, set replaces the value of a present  *)
(* key in place and appends an absent one, and an iteration that is         *)
(* suspended sees the entries added and deleted meanwhile.                  *)
(***************************************************************************)
\* a lookup that finds nothing
MapGetNothing(m, d) == 0
\* notebookToDebugger.get(doc): the Debugger of doc, 0 for undefined
MapGet(m, d) ==
  IF \E i \in 1..Len(m) : m[i].doc = d
  THEN m[CHOOSE i \in 1..Len(m) : m[i].doc = d].dbg
  ELSE 0

\* notebookToDebugger.set(doc, dbg)
MapSetEntry(m, d, n) ==
  IF \E i \in 1..Len(m) : m[i].doc = d
  THEN [i \in 1..Len(m) |-> IF m[i].doc = d THEN [doc |-> d, dbg |-> n] ELSE m[i]]
  ELSE Append(m, [doc |-> d, dbg |-> n])

\* notebookToDebugger.delete(doc)
MapDelete(m, d) == SelectSeq(m, LAMBDA e : e.doc # d)

\* lines 126-133: the first entry whose document has the URI
GetDebuggerByUri(m, docUri) == MapGet(m, docUri)

\* the number of the next Debugger
NextDebugger == Cardinality({n \in DebuggerIds : debuggers[n].state # "none"}) + 1

\* lines 151-164: a Debugger of doc, its session promise pending
NewDebugger(d) == [document |-> d, state |-> "Starting", handle |-> 0]

\* a resolve that settles the promise again
ResolveAgain(dbg, session) == [dbg EXCEPT !.state = "Active", !.handle = session]
\* lines 166-170: resolveFunc(session); a settled promise stays as it is
Resolve(dbg, session) ==
  IF dbg.state = "Starting" THEN [dbg EXCEPT !.state = "Active", !.handle = session] ELSE dbg

\* a reject that is lost
RejectIgnored(dbg) == dbg
\* lines 172-176: rejectFunc(reason); a settled promise stays as it is
Reject(dbg) ==
  IF dbg.state = "Starting" THEN [dbg EXCEPT !.state = "Failed"] ELSE dbg

\* a margin that is switched on whatever the argument
UpdateDebuggerUIOn(d, showBreakpointsMargin) ==
  breakpointMargin' = [breakpointMargin EXCEPT ![d] = TRUE]
\* lines 135-141
UpdateDebuggerUI(d, showBreakpointsMargin) ==
  breakpointMargin' = [breakpointMargin EXCEPT ![d] = showBreakpointsMargin]

Outcome(k, d, s, m, o) == [kind |-> k, doc |-> d, session |-> s, matched |-> m, outcome |-> o,
                           dbg |-> 0, before |-> NoDebugger, errors |-> 0]

\* how a step that called resolve or reject of Debugger n ended, with the
\* Debugger as the call found it
Settling(k, n, s, o) ==
  [kind |-> k, doc |-> debuggers[n].document, session |-> s, matched |-> "", outcome |-> o,
   dbg |-> n, before |-> debuggers[n], errors |-> 0]

\* a step of the coordinator that does not repair breakpoints
CoordFrame ==
  /\ NoRepair
  /\ UNCHANGED <<cells, nextHandle, breakpoints>>
  /\ UNCHANGED <<bridgeVars, commandVars>>

\* a suspended call of toggleDebugging or of the close callback; active is
\* vscode.debug.activeDebugSession as stop() read it before its await
Call(k, d, dbg, pc, active) ==
  [kind |-> k, doc |-> d, dbg |-> dbg, pc |-> pc, active |-> active]

\* the callbacks whose awaited session promise is settled: their
\* continuations are queued as microtasks
ReadyCalls == {c \in calls : c.pc \in {"stop", "session"} /\ debuggers[c.dbg].state # "Starting"}
ReadyTerminations == {h \in terminations : debuggers[h.current].state # "Starting"}

\* the microtask queue is empty; only then does the host run the next
\* callback or deliver the next result
Quiescent == ReadyCalls = {} /\ ReadyTerminations = {}

\* a stop() that issues the command whatever session is active
StopResultAlways(k, d, dbg, active) ==
  Outcome(k, d, debuggers[dbg].handle, "",
          IF debuggers[dbg].state = "Failed" THEN "threw" ELSE "stop")

\* lines 178-184: stop() of a Debugger whose promise is settled.  The left
\* operand of line 179 is evaluated before the await, so the comparison is
\* with the session that was active when stop() was called.
StopResult(k, d, dbg, active) ==
  Outcome(k, d, debuggers[dbg].handle, "",
          IF debuggers[dbg].state = "Failed" THEN "threw"
          ELSE IF active = debuggers[dbg].handle THEN "stop" ELSE "cannot stop")

\* lines 104-113: toggleDebugging(doc) up to its first await that has to
\* wait: the await of the session promise in stop() goes on at once when the
\* promise is settled
ToggleDebugging(d) ==
  /\ Quiescent
  /\ Cardinality(calls) < MaxCalls
  /\ LET dbg == MapGet(notebookToDebugger, d) IN
       IF dbg # 0
       THEN /\ IF debuggers[dbg].state = "Starting"
               THEN /\ calls' = calls \cup {Call("toggle", d, dbg, "stop", activeDebugSession)}
                    /\ lastOutcome' = NoOutcome
               ELSE /\ calls' = calls
                    /\ lastOutcome' = StopResult("toggle", d, dbg, activeDebugSession)
            /\ UNCHANGED <<notebookToDebugger, debuggers, hostSessions>>
       ELSE /\ NextDebugger <= MaxSessions
            /\ debuggers' = [debuggers EXCEPT ![NextDebugger] = NewDebugger(d)]
            /\ hostSessions' = [hostSessions EXCEPT ![NextDebugger] = "requested"]
            /\ notebookToDebugger' = MapSetEntry(notebookToDebugger, d, NextDebugger)
            /\ calls' = calls \cup {Call("toggle", d, NextDebugger, "kernel", 0)}
            /\ lastOutcome' = NoOutcome
  /\ UNCHANGED <<activeDebugSession, factories, terminations, breakpointMargin>>
  /\ CoordFrame

\* line 113: getDocumentKernel(doc) returns
ResumeKernel(c) ==
  /\ Quiescent
  /\ c.pc = "kernel"
  /\ calls' = (calls \ {c}) \cup {[c EXCEPT !.pc = "session"]}
  /\ lastOutcome' = NoOutcome
  /\ UNCHANGED <<notebookToDebugger, debuggers, hostSessions, activeDebugSession, factories,
                 terminations, breakpointMargin>>
  /\ CoordFrame

\* lines 114-120: the session promise of the new Debugger is settled
ResumeSession(c) ==
  /\ c.pc = "session"
  /\ debuggers[c.dbg].state # "Starting"
  /\ calls' = calls \ {c}
  /\ IF debuggers[c.dbg].state = "Active"
     THEN /\ UpdateDebuggerUI(c.doc, TRUE)
          /\ lastOutcome' = Outcome("toggle", c.doc, debuggers[c.dbg].handle, "", "started")
     ELSE \* line 118: showErrorMessage, once
          /\ UpdateDebuggerUI(c.doc, FALSE)
          /\ lastOutcome' = [Outcome("toggle", c.doc, 0, "", "failed") EXCEPT !.errors = 1]
  /\ UNCHANGED <<notebookToDebugger, debuggers, hostSessions, activeDebugSession, factories,
                 terminations>>
  /\ CoordFrame

\* lines 178-184: stop() after its await of a session promise that was
\* pending, called from toggleDebugging (line 109) or from the close callback
\* (line 45); when the await throws, so does the caller
ResumeStop(c) ==
  /\ c.pc = "stop"
  /\ debuggers[c.dbg].state # "Starting"
  /\ calls' = IF c.kind = "close" /\ debuggers[c.dbg].state = "Active"
              THEN (calls \ {c}) \cup {[c EXCEPT !.pc = "fix"]}
              ELSE calls \ {c}
  /\ lastOutcome' = StopResult(c.kind, c.doc, c.dbg, c.active)
  /\ UNCHANGED <<notebookToDebugger, debuggers, hostSessions, activeDebugSession, factories,
                 terminations, breakpointMargin>>
  /\ CoordFrame

\* lines 42-47: the close callback up to its first await that has to wait
\* (of a pending session promise, or of the promise stop() returned), or to
\* its end
CloseNotebookDocument(d) ==
  /\ Quiescent
  /\ Cardinality(calls) < MaxCalls
  /\ LET dbg == MapGet(notebookToDebugger, d) IN
       IF dbg # 0
       THEN /\ IF debuggers[dbg].state = "Starting"
               THEN /\ calls' = calls \cup {Call("close", d, dbg, "stop", activeDebugSession)}
                    /\ lastOutcome' = NoOutcome
               ELSE /\ calls' = IF debuggers[dbg].state = "Active"
                                THEN calls \cup {Call("close", d, dbg, "fix", activeDebugSession)}
                                ELSE calls
                    /\ lastOutcome' = StopResult("close", d, dbg, activeDebugSession)
            /\ CoordFrame
       ELSE /\ calls' = calls
            /\ lastOutcome' = Outcome("close", d, 0, "", "fixed")
            /\ FixBreakpointsEffect(d)
            /\ UNCHANGED <<cells, nextHandle>>
            /\ UNCHANGED <<bridgeVars, commandVars>>
  /\ UNCHANGED <<notebookToDebugger, debuggers, hostSessions, activeDebugSession, factories,
                 terminations, breakpointMargin>>

\* line 47 after the await of line 45
ResumeClose(c) ==
  /\ Quiescent
  /\ c.pc = "fix"
  /\ calls' = calls \ {c}
  /\ lastOutcome' = Outcome("close", c.doc, 0, "", "fixed")
  /\ FixBreakpointsEffect(c.doc)
  /\ UNCHANGED <<cells, nextHandle>>
  /\ UNCHANGED <<bridgeVars, commandVars>>
  /\ UNCHANGED <<notebookToDebugger, debuggers, hostSessions, activeDebugSession, factories,
                 terminations, breakpointMargin>>

\* line 162: the promise of startDebugging rejects, before the host called
\* the factory or after the factory returned no adapter
HostRejectStart(n) ==
  /\ Quiescent
  /\ n \in DebuggerIds
  /\ hostSessions[n] \in {"requested", "refused"}
  /\ hostSessions' = [hostSessions EXCEPT ![n] = "over"]
  /\ debuggers' = [debuggers EXCEPT ![n] = Reject(@)]
  /\ lastOutcome' = Settling("start", n, n, "rejected")
  /\ UNCHANGED <<notebookToDebugger, activeDebugSession, calls, factories, terminations,
                 breakpointMargin>>
  /\ CoordFrame

\* lines 157-161: session.configuration.__document is the document of the
\* Debugger that asked for the session, or the one the user's launch
\* configuration names
ConfigurationDocument(n) ==
  IF n \in DebuggerIds THEN debuggers[n].document ELSE UserSessionDocument

\* lines 52-55: createDebugAdapterDescriptor(session) up to its await, or to
\* its end at line 64 when no Debugger has the document
CreateDebugAdapterDescriptor(n) ==
  /\ Quiescent
  /\ hostSessions[n] = "requested"
  /\ LET dbg == GetDebuggerByUri(notebookToDebugger, ConfigurationDocument(n)) IN
       IF dbg # 0
       THEN /\ factories' = factories \cup {[session |-> n, dbg |-> dbg]}
            /\ hostSessions' = [hostSessions EXCEPT ![n] = "factory"]
            /\ lastOutcome' = NoOutcome
       ELSE /\ factories' = factories
            /\ hostSessions' = [hostSessions EXCEPT ![n] = "refused"]
            /\ lastOutcome' = Outcome("factory", ConfigurationDocument(n), n, "", "no debugger")
  /\ UNCHANGED <<notebookToDebugger, debuggers, activeDebugSession, calls, terminations,
                 breakpointMargin>>
  /\ CoordFrame

\* lines 56-64: getDocumentKernel returned the kernel, or undefined
ResumeFactory(f, kernel) ==
  /\ Quiescent
  /\ factories' = factories \ {f}
  /\ IF kernel
     THEN /\ debuggers' = [debuggers EXCEPT ![f.dbg] = Resolve(@, f.session)]
          /\ hostSessions' = [hostSessions EXCEPT ![f.session] = "running"]
     ELSE /\ debuggers' = [debuggers EXCEPT ![f.dbg] = Reject(@)]
          /\ hostSessions' = [hostSessions EXCEPT ![f.session] = "refused"]
  /\ lastOutcome' = Settling("factory", f.dbg, f.session,
                             IF kernel THEN "adapter" ELSE "kernel stopped")
  /\ UNCHANGED <<notebookToDebugger, activeDebugSession, calls, terminations, breakpointMargin>>
  /\ CoordFrame

\* the host makes a running session, or none, the active one
HostFocus(n) ==
  /\ Quiescent
  /\ n = 0 \/ (n \in SessionIds /\ hostSessions[n] = "running")
  /\ n # activeDebugSession
  /\ activeDebugSession' = n
  /\ lastOutcome' = NoOutcome
  /\ UNCHANGED <<notebookToDebugger, debuggers, hostSessions, calls, factories, terminations,
                 breakpointMargin>>
  /\ CoordFrame

\* the document whose entry holds a Debugger resolved with the session
MatchingDoc(m, dbgs, session) ==
  IF \E i \in 1..Len(m) : dbgs[m[i].dbg].state = "Active" /\ dbgs[m[i].dbg].handle = session
  THEN m[CHOOSE i \in 1..Len(m) :
            dbgs[m[i].dbg].state = "Active" /\ dbgs[m[i].dbg].handle = session].doc
  ELSE ""

\* line 32: the next entry of the iteration, 0 at its end
NextEntry(m, visited) ==
  IF \E i \in 1..Len(m) : m[i].dbg \notin visited
  THEN m[CHOOSE i \in 1..Len(m) :
            m[i].dbg \notin visited /\ \A j \in 1..(i - 1) : m[j].dbg \in visited].dbg
  ELSE 0

\* lines 31-33: a session ends (it ran, or it got no adapter) and the host
\* reports it; the callback runs up to its first await
DidTerminateDebugSession(n) ==
  /\ Quiescent
  /\ hostSessions[n] \in {"running", "refused"}
  /\ hostSessions' = [hostSessions EXCEPT ![n] = "over"]
  /\ activeDebugSession' = IF activeDebugSession = n THEN 0 ELSE activeDebugSession
  /\ LET matched == MatchingDoc(notebookToDebugger, debuggers, n)
         first == NextEntry(notebookToDebugger, {})
     IN IF first = 0
        THEN /\ terminations' = terminations
             /\ lastOutcome' = Outcome("terminate", "", n, matched, "not found")
        ELSE /\ terminations' = terminations \cup
                                  {[session |-> n, current |-> first, visited |-> {},
                                    matched |-> matched]}
             /\ lastOutcome' = NoOutcome
  /\ UNCHANGED <<notebookToDebugger, debuggers, calls, factories, breakpointMargin>>
  /\ CoordFrame

\* lines 32-38: the awaited session promise of the current entry is settled
ResumeTermination(h) ==
  /\ debuggers[h.current].state # "Starting"
  /\ IF debuggers[h.current].state = "Failed"
     THEN \* the await throws and ends the callback
          /\ terminations' = terminations \ {h}
          /\ lastOutcome' = Outcome("terminate", "", h.session, h.matched, "threw")
          /\ UNCHANGED <<notebookToDebugger, breakpointMargin>>
     ELSE IF debuggers[h.current].handle = h.session
     THEN /\ notebookToDebugger' = MapDelete(notebookToDebugger, debuggers[h.current].document)
          /\ UpdateDebuggerUI(debuggers[h.current].document, FALSE)
          /\ terminations' = terminations \ {h}
          /\ lastOutcome' = Outcome("terminate", debuggers[h.current].document, h.session,
                                    h.matched, "removed")
     ELSE LET visited == h.visited \cup {h.current}
              next == NextEntry(notebookToDebugger, visited)
          IN /\ IF next = 0
                THEN /\ terminations' = terminations \ {h}
                     /\ lastOutcome' = Outcome("terminate", "", h.session, h.matched, "not found")
                ELSE /\ terminations' = (terminations \ {h}) \cup
                                          {[h EXCEPT !.current = next, !.visited = visited]}
                     /\ lastOutcome' = NoOutcome
             /\ UNCHANGED <<notebookToDebugger, breakpointMargin>>
  /\ UNCHANGED <<debuggers, hostSessions, activeDebugSession, calls, factories>>
  /\ CoordFrame

(***************************************************************************)
(* SpecCoord: the DebuggingManager with two documents, the host's debug     *)
(* service and the kernel manager.  Document d1 has two swapped cells and a *)
(* breakpoint in one of them.                                               *)
(***************************************************************************)
InitCoord ==
  /\ cells = [d \in Docs |-> IF d = "d1" THEN <<HandleFragment(1), HandleFragment(0)>>
                                         ELSE <<HandleFragment(0)>>]
  /\ nextHandle = [d \in Docs |-> 2]
  /\ breakpoints = SetToBag({SourceBreakpoint(Uri("d1", HandleFragment(0)), 0, TRUE)})
  /\ removeCalls = 0 /\ addCalls = 0
  /\ lastRemoved = EmptyBag /\ lastAdded = EmptyBag
  /\ storeBefore = breakpoints /\ cellsBefore = cells
  /\ repairDoc = "" /\ repairsInRow = 0
  /\ BridgeIdle
  /\ CoordIdle
  /\ CommandIdle

NextCoord ==
  \/ \E d \in Docs : ToggleDebugging(d)
  \/ \E c \in calls : ResumeKernel(c)
  \/ \E c \in calls : ResumeSession(c)
  \/ \E c \in calls : ResumeStop(c)
  \/ \E d \in Docs : CloseNotebookDocument(d)
  \/ \E c \in calls : ResumeClose(c)
  \/ \E n \in DebuggerIds : HostRejectStart(n)
  \/ \E n \in DebuggerIds : CreateDebugAdapterDescriptor(n)
  \/ \E f \in factories, kernel \in BOOLEAN : ResumeFactory(f, kernel)
  \/ \E n \in 0..MaxSessions : HostFocus(n)
  \/ \E n \in DebuggerIds : DidTerminateDebugSession(n)
  \/ \E h \in terminations : ResumeTermination(h)

SpecCoord == InitCoord /\ [][NextCoord]_vars

(***************************************************************************)
(* Claims about the DebuggingManager, checked under SpecCoord.              *)
(***************************************************************************)

\* C1: when a start attempt of toggleDebugging(doc) has handled the rejection
\* of its session promise (the error is shown, the margin is off), the map
\* holds no entry for doc.
C1_FailedStartLeavesNoEntry ==
  (lastOutcome.kind = "toggle" /\ lastOutcome.outcome = "failed")
    => MapGet(notebookToDebugger, lastOutcome.doc) = 0

\* C4: a termination callback for a session that some entry's Debugger was
\* resolved with, when the host reported the termination, ends having removed
\* that entry and switched the margin of its document off, whatever else the
\* map holds.
C4_TerminationRemovesMatch ==
  (lastOutcome.kind = "terminate" /\ lastOutcome.matched # "")
    => /\ lastOutcome.outcome = "removed"
       /\ MapGet(notebookToDebugger, lastOutcome.matched) = 0
       /\ ~breakpointMargin[lastOutcome.matched]

\* the start requests of document d that the host has not finished with
LiveRequests(d) ==
  {n \in DebuggerIds : /\ debuggers[n].document = d
                       /\ hostSessions[n] \in {"requested", "factory", "running", "refused"}}

LaunchDocs == {"d1"}

\* the user starts the session of the launch configuration
UserStartSession ==
  /\ Quiescent
  /\ hostSessions[UserSession] = "none"
  /\ hostSessions' = [hostSessions EXCEPT ![UserSession] = "requested"]
  /\ lastOutcome' = NoOutcome
  /\ UNCHANGED <<notebookToDebugger, debuggers, activeDebugSession, calls, factories,
                 terminations, breakpointMargin>>
  /\ CoordFrame

NextLaunch ==
  \/ \E d \in LaunchDocs : ToggleDebugging(d)
  \/ \E c \in calls : ResumeKernel(c)
  \/ \E c \in calls : ResumeSession(c)
  \/ \E c \in calls : ResumeStop(c)
  \/ \E d \in LaunchDocs : CloseNotebookDocument(d)
  \/ \E c \in calls : ResumeClose(c)
  \/ \E n \in DebuggerIds : HostRejectStart(n)
  \/ UserStartSession
  \/ \E n \in SessionIds : CreateDebugAdapterDescriptor(n)
  \/ \E f \in factories, kernel \in BOOLEAN : ResumeFactory(f, kernel)
  \/ \E n \in 0..UserSession : HostFocus(n)
  \/ \E n \in SessionIds : DidTerminateDebugSession(n)
  \/ \E h \in terminations : ResumeTermination(h)

SpecLaunch == InitCoord /\ [][NextLaunch]_vars

(***************************************************************************)
(* Claims about the factory and the Debugger, checked under SpecLaunch.     *)
(***************************************************************************)

\* C11: a factory invocation that found a Debugger for the document leaves it
\* Active with the session of the invocation and returns an adapter when the
\* kernel is there, and leaves it Failed and returns no adapter when the
\* kernel is gone; one that found no Debugger returns nothing and changes
\* neither the map nor a Debugger.
C11_FactorySettles ==
  [][lastOutcome'.kind = "factory" =>
       LET o == lastOutcome' IN
         /\ notebookToDebugger' = notebookToDebugger
         /\ IF o.outcome = "adapter"
            THEN /\ hostSessions'[o.session] = "running"
                 /\ debuggers'[o.dbg].state = "Active"
                 /\ debuggers'[o.dbg].handle = o.session
            ELSE IF o.outcome = "kernel stopped"
            THEN /\ hostSessions'[o.session] = "refused"
                 /\ debuggers'[o.dbg].state = "Failed"
            ELSE /\ hostSessions'[o.session] = "refused"
                 /\ debuggers' = debuggers]_vars

\* C11 with the Debugger as the factory found it: the same, but only a
\* Debugger that is still Starting becomes Active or Failed; one that is
\* settled stays as it is, and the adapter is returned or not all the same.
C11_FactorySettlesStarting ==
  [][lastOutcome'.kind = "factory" =>
       LET o == lastOutcome' IN
         /\ notebookToDebugger' = notebookToDebugger
         /\ IF o.outcome = "adapter"
            THEN /\ hostSessions'[o.session] = "running"
                 /\ debuggers' = [debuggers EXCEPT ![o.dbg] =
                                    IF o.before.state = "Starting"
                                    THEN [o.before EXCEPT !.state = "Active", !.handle = o.session]
                                    ELSE o.before]
            ELSE IF o.outcome = "kernel stopped"
            THEN /\ hostSessions'[o.session] = "refused"
                 /\ debuggers' = [debuggers EXCEPT ![o.dbg] =
                                    IF o.before.state = "Starting"
                                    THEN [o.before EXCEPT !.state = "Failed"]
                                    ELSE o.before]
            ELSE /\ hostSessions'[o.session] = "refused"
                 /\ debuggers' = debuggers]_vars

\* the factory returned an adapter for a document whose Debugger had failed
C11_Witness ==
  /\ lastOutcome.kind = "factory"
  /\ lastOutcome.outcome = "adapter"
  /\ lastOutcome.before.state = "Failed"
  /\ debuggers[lastOutcome.dbg].state = "Failed"
  /\ hostSessions[lastOutcome.session] = "running"

\* C19: a Debugger leaves Starting once, for Active (with a handle) or for
\* Failed, and a step never changes the state or the handle of a Debugger
\* that is Active or Failed.
C19_SettledOnce ==
  [][\A n \in DebuggerIds :
       /\ debuggers[n].state \in {"Active", "Failed"} => debuggers'[n] = debuggers[n]
       /\ debuggers[n].state = "Starting" =>
            /\ debuggers'[n].state \in {"Starting", "Active", "Failed"}
            /\ debuggers'[n].document = debuggers[n].document
            /\ (debuggers'[n].state = "Active") = (debuggers'[n].handle # 0)]_vars

\* the factory was invoked a second time for the document, with another
\* session, and the Debugger kept the handle it was resolved with
C19_Witness ==
  /\ lastOutcome.kind = "factory"
  /\ lastOutcome.outcome = "adapter"
  /\ lastOutcome.before.state = "Active"
  /\ lastOutcome.before.handle # lastOutcome.session
  /\ debuggers[lastOutcome.dbg] = lastOutcome.before

(***************************************************************************)
(* More claims about the DebuggingManager, checked under SpecCoord.         *)
(***************************************************************************)

\* C12: a close callback that has ended has run fixBreakpoints for its
\* document, whether the document had a Debugger or not and whatever state
\* the Debugger was in.
C12_CloseRepairs ==
  (lastOutcome.kind = "close" /\ lastOutcome.outcome \in {"fixed", "threw"})
    => (repairDoc = lastOutcome.doc /\ repairsInRow >= 1)

\* C13: the step that ends a start of toggleDebugging (the await of line 115
\* is over) switches the margin of the document on exactly when the session
\* promise was resolved; when it was rejected the margin is switched off,
\* one error message is shown and the call returns without throwing.
C13_StartToggleOutcome ==
  [][\A c \in calls :
       (c.pc = "session" /\ c \notin calls') =>
          LET o == lastOutcome' IN
            /\ o.kind = "toggle" /\ o.doc = c.doc
            /\ IF debuggers[c.dbg].state = "Active"
               THEN o.outcome = "started" /\ breakpointMargin'[c.doc] /\ o.errors = 0
               ELSE /\ debuggers[c.dbg].state = "Failed"
                    /\ o.outcome = "failed" /\ ~breakpointMargin'[c.doc] /\ o.errors = 1]_vars

\* a start of a document failed, after an earlier Debugger of the document
\* had been resolved; the error is shown and the margin is off
C13_Witness ==
  /\ lastOutcome.kind = "toggle" /\ lastOutcome.outcome = "failed"
  /\ lastOutcome.errors = 1
  /\ ~breakpointMargin[lastOutcome.doc]
  /\ \E n \in DebuggerIds : /\ debuggers[n].document = lastOutcome.doc
                            /\ debuggers[n].state = "Active"

(***************************************************************************)
(* More claims about the XeusDebugAdapter, checked under SpecBridge.        *)
(***************************************************************************)

\* the suspended invocations whose dumpCell request threw
FailedPending(S) == {q \in S : q.outcome = "failed"}

\* the step in which the dumpCell request of a suspended invocation throws
DumpCellThrew ==
  \E p \in pending : /\ p.pc = "dumpCell"
                     /\ [p EXCEPT !.pc = "resume", !.outcome = "failed"] \in pending'
                     /\ [p EXCEPT !.pc = "resume", !.outcome = "failed"] \notin pending

\* C14: when the dumpCell request of a setBreakpoints request throws, neither
\* mapping gets an entry, and the request is sent to the kernel, once, as a
\* debug_request whose source path is the cell address it came with.
C14_FailedDumpPassthrough ==
  [][/\ DumpCellThrew => UNCHANGED <<fileToCell, cellToFile>>
     /\ Cardinality(FailedPending(pending')) < Cardinality(FailedPending(pending))
          => lastSent'.outcome = "failed"
     /\ lastSent'.outcome = "failed"
          => /\ Cardinality(pending') = Cardinality(pending) - 1
             /\ lastSent'.envelope = "debug_request"
             /\ lastSent'.msg = lastSent'.orig]_vars

\* C14 for a cell that may have a mapping: the same, but the request is sent
\* with the kernel file path cellToFile holds for the cell when there is one
\* (from a materialization that succeeded), and with the cell address only
\* when there is none.
C14_FailedDumpDegraded ==
  [][/\ DumpCellThrew => UNCHANGED <<fileToCell, cellToFile>>
     /\ Cardinality(FailedPending(pending')) < Cardinality(FailedPending(pending))
          => lastSent'.outcome = "failed"
     /\ lastSent'.outcome = "failed"
          => /\ Cardinality(pending') = Cardinality(pending) - 1
             /\ lastSent'.envelope = "debug_request"
             /\ lastSent'.msg =
                  IF lastSent'.orig.path \in DOMAIN cellToFile
                  THEN [lastSent'.orig EXCEPT !.path = cellToFile[lastSent'.orig.path]]
                  ELSE lastSent'.orig]_vars

\* a request whose dumpCell threw went out with the path of an earlier
\* materialization of its cell
C14_Witness ==
  /\ lastSent.outcome = "failed"
  /\ lastSent.envelope = "debug_request"
  /\ lastSent.orig.path \in DOMAIN cellToFile
  /\ lastSent.msg.path = cellToFile[lastSent.orig.path]
  /\ lastSent.msg.path \in Files

\* C15: the adapter emits to the editor in the very step in which the kernel
\* stream delivers a message, and only then: it emits the message delivered
\* (with its sources rewritten) when the message is a debug_request,
\* debug_reply or debug_event and dispose() has not been called, and it emits
\* nothing for any other message and for any message after dispose().
C15_EmitsDebugMessages ==
  /\ (lastEmitted # NoEmitted) =
       (lastDelivered # NoDelivered /\ subscribed /\ lastDelivered.msg_type \in debugEvents)
  /\ lastEmitted # NoEmitted =>
       /\ lastEmitted.kernel = lastDelivered.msg_type
       /\ lastEmitted.orig = lastDelivered.content
       /\ lastEmitted.msg.type = lastDelivered.content.type
       /\ lastEmitted.msg.command = lastDelivered.content.command

\* a debug message delivered after dispose() is dropped
C15_Witness ==
  /\ ~subscribed
  /\ lastDelivered.msg_type = "debug_event"
  /\ lastEmitted = NoEmitted

\* the entries of the map, as a set
Entries(m) == {m[i] : i \in 1..Len(m)}

\* a step takes an entry out of the map only as a termination callback that
\* found its session, and puts one in only for a document that had none; a
\* toggleDebugging on a document that has a Debugger and a close callback
\* leave the map as it is
MapFrame ==
  /\ Entries(notebookToDebugger) \ Entries(notebookToDebugger') # {}
       => lastOutcome'.kind = "terminate" /\ lastOutcome'.outcome = "removed"
  /\ \A e \in Entries(notebookToDebugger') \ Entries(notebookToDebugger) :
       MapGet(notebookToDebugger, e.doc) = 0
  /\ lastOutcome'.kind = "close" => notebookToDebugger' = notebookToDebugger
  /\ lastOutcome'.outcome \in {"stop", "cannot stop", "threw"}
       => notebookToDebugger' = notebookToDebugger

\* C16: the map loses an entry only in a termination callback, a toggle on a
\* document with a Debugger and a close callback leave it unchanged, and when
\* stop() has awaited the session it issues the stop command exactly when
\* the session that is active then is the one the Debugger was resolved with.
C16_StopOnlyWhenActive ==
  [][/\ MapFrame
     /\ lastOutcome'.outcome \in {"stop", "cannot stop"} =>
          ((lastOutcome'.outcome = "stop") = (activeDebugSession' = lastOutcome'.session))]_vars

\* a toggle on a document whose session is the active one issued the stop
\* command, and the entry of the document is still in the map
C16_Witness ==
  /\ lastOutcome.kind = "toggle"
  /\ lastOutcome.outcome = "stop"
  /\ activeDebugSession = lastOutcome.session
  /\ MapGet(notebookToDebugger, lastOutcome.doc) # 0
  /\ debuggers[MapGet(notebookToDebugger, lastOutcome.doc)].handle = lastOutcome.session

\* C17: a handleMessage that reaches its dispatch sends one debug_request
\* envelope for a request, one debug_reply envelope for a response, and
\* nothing for a message of another type, which it drops leaving the
\* subscription and both mappings as they are; a step sends only as the
\* dispatch of the message it sends, and an invocation leaves the suspended
\* ones only by its dispatch.
C17_DispatchByType ==
  [][/\ lastDispatched' # NoDispatched =>
          /\ lastDispatched'.msg.type = "request" =>
               /\ lastDispatched'.sends = 1
               /\ lastSent'.envelope = "debug_request" /\ lastSent'.orig = lastDispatched'.msg
          /\ lastDispatched'.msg.type = "response" =>
               /\ lastDispatched'.sends = 1
               /\ lastSent'.envelope = "debug_reply" /\ lastSent'.orig = lastDispatched'.msg
          /\ lastDispatched'.msg.type \notin {"request", "response"} =>
               /\ lastDispatched'.sends = 0
               /\ lastSent' = NoSent
               /\ UNCHANGED <<subscribed, fileToCell, cellToFile>>
     /\ lastSent' # NoSent => lastDispatched' # NoDispatched
     /\ Cardinality(pending') < Cardinality(pending) =>
          /\ lastDispatched' # NoDispatched
          /\ Cardinality(pending') = Cardinality(pending) - 1]_vars

\* a message of type event was dropped by an adapter that has a mapping and
\* its subscription
C17_Witness ==
  /\ lastDispatched.msg.type = "event"
  /\ lastDispatched.sends = 0
  /\ lastSent = NoSent
  /\ subscribed
  /\ DOMAIN cellToFile # {}

\* C18: an envelope is sent only when no invocation of handleMessage that
\* the host made earlier is still suspended, so the envelopes go out in the
\* order of the invocations.
C18_EditorOrder == lastSent # NoSent => ~lastSent.overtook

(***************************************************************************)
(* SpecCommand: the toggleDebugging command of the extension entry point,   *)
(* which keeps a flag on the document's kernel.  An invocation reads the    *)
(* active document, awaits the document's kernel and then, in one step,     *)
(* flips the flag, sets the margins and asks the host to start or to stop.  *)
(* Between the two steps the host may change the active document, insert a  *)
(* cell, and run the command again.                                         *)
(***************************************************************************)
MaxCommands == 2

\* a flag that is only ever switched on
FlipOn(v) == TRUE
\* line 65: !kernel.isDebugging
Flip(v) == ~v

\* the number of invocations suspended at line 59
Suspended == commands["d1"] + commands["d2"]

\* lines 67-71: the margins of d after the loop over doc.cells
MarginsSet(d, value) ==
  [f \in Fragments |->
     IF (\E i \in 1..Len(cells[d]) : cells[d][i] = f) /\ cellKind[f] = "Code"
       THEN value
       ELSE cellBreakpointMargin[d][f]]

CommandFrame ==
  /\ UNCHANGED <<breakpoints, nextHandle, cells>>
  /\ NoRepair
  /\ UNCHANGED <<bridgeVars, coordVars>>
  /\ cellKind' = cellKind

\* lines 52-59: the command up to its await
ToggleCommand ==
  /\ IF activeNotebookDocument = ""
       THEN /\ lastCommand' = [NoCommand EXCEPT !.outcome = "no document", !.errors = 1]
            /\ commands' = commands
       ELSE /\ Suspended < MaxCommands
            /\ commands' = [commands EXCEPT ![activeNotebookDocument] = @ + 1]
            /\ lastCommand' = NoCommand
  /\ UNCHANGED <<activeNotebookDocument, isDebugging, cellBreakpointMargin>>
  /\ CommandFrame

\* lines 59-83: the command from the kernel it awaited
ResumeCommand(d, kernel) ==
  /\ commands[d] > 0
  /\ commands' = [commands EXCEPT ![d] = @ - 1]
  /\ IF ~kernel
       THEN /\ lastCommand' = [NoCommand EXCEPT !.doc = d, !.outcome = "no kernel",
                                                !.errors = 1]
            /\ UNCHANGED <<isDebugging, cellBreakpointMargin>>
       ELSE /\ isDebugging' = [isDebugging EXCEPT ![d] = Flip(@)]
            /\ cellBreakpointMargin' =
                 [cellBreakpointMargin EXCEPT ![d] = MarginsSet(d, isDebugging'[d])]
            /\ lastCommand' = [NoCommand EXCEPT !.doc = d, !.outcome = "toggled",
                                 !.starts = IF isDebugging'[d] THEN 1 ELSE 0,
                                 !.stops = IF isDebugging'[d] THEN 0 ELSE 1]
  /\ activeNotebookDocument' = activeNotebookDocument
  /\ CommandFrame

\* the user moves to another notebook editor, or away from all of them
SetActiveDocument(d) ==
  /\ d # activeNotebookDocument
  /\ activeNotebookDocument' = d
  /\ lastCommand' = NoCommand
  /\ UNCHANGED <<isDebugging, cellBreakpointMargin, commands>>
  /\ CommandFrame

\* the host inserts a new cell, whose metadata has no margin yet
CommandInsertCell(d) ==
  /\ InsertCell(d)
  /\ lastCommand' = NoCommand
  /\ UNCHANGED <<activeNotebookDocument, isDebugging, cellBreakpointMargin, cellKind,
                 commands>>
  /\ UNCHANGED <<bridgeVars, coordVars>>

InitCommand ==
  /\ cells = [d \in Docs |-> <<HandleFragment(0)>>]
  /\ nextHandle = [d \in Docs |-> 1]
  /\ breakpoints = EmptyBag
  /\ removeCalls = 0 /\ addCalls = 0
  /\ lastRemoved = EmptyBag /\ lastAdded = EmptyBag
  /\ storeBefore = breakpoints /\ cellsBefore = cells
  /\ repairDoc = "" /\ repairsInRow = 0
  /\ BridgeIdle
  /\ CoordIdle
  /\ activeNotebookDocument = ""
  /\ isDebugging = [d \in Docs |-> FALSE]
  /\ cellBreakpointMargin = [d \in Docs |-> [f \in Fragments |-> FALSE]]
  /\ cellKind \in [Fragments -> CellKinds]
  /\ commands = [d \in Docs |-> 0]
  /\ lastCommand = NoCommand

NextCommand ==
  \/ ToggleCommand
  \/ \E d \in Docs, kernel \in BOOLEAN : ResumeCommand(d, kernel)
  \/ \E d \in Docs \cup {""} : SetActiveDocument(d)
  \/ CommandInsertCell("d1")

SpecCommand == InitCommand /\ [][NextCommand]_vars

\* C20: an invocation of the toggle command that finds no active notebook
\* document, or no kernel for the document, leaves every kernel's isDebugging
\* and every cell's breakpointMargin as they were and issues neither a start
\* nor a stop; any other invocation flips the isDebugging of the document's
\* kernel, gives the breakpointMargin of every code cell of the document the
\* new value, and issues one host start-debugging request and no stop if the
\* new value is true, one host stop command and no start if it is false.
C20_ToggleCommand ==
  [][/\ lastCommand'.outcome \in {"no document", "no kernel"} =>
          /\ isDebugging' = isDebugging
          /\ cellBreakpointMargin' = cellBreakpointMargin
          /\ lastCommand'.starts = 0 /\ lastCommand'.stops = 0
     /\ lastCommand'.outcome = "toggled" =>
          LET d == lastCommand'.doc IN
          /\ isDebugging'[d] = ~isDebugging[d]
          /\ \A i \in 1..Len(cells'[d]) :
               cellKind'[cells'[d][i]] = "Code" =>
                 cellBreakpointMargin'[d][cells'[d][i]] = isDebugging'[d]
          /\ lastCommand'.starts = (IF isDebugging'[d] THEN 1 ELSE 0)
          /\ lastCommand'.stops = (IF isDebugging'[d] THEN 0 ELSE 1)]_vars

\* the command has switched debugging off for a document that has a code
\* cell and a markdown cell, and a stop went to the host
C20_Witness ==
  /\ lastCommand.outcome = "toggled"
  /\ lastCommand.stops = 1
  /\ ~isDebugging[lastCommand.doc]
  /\ \E i, j \in 1..Len(cells[lastCommand.doc]) :
       /\ cellKind[cells[lastCommand.doc][i]] = "Code"
       /\ cellKind[cells[lastCommand.doc][j]] = "Markdown"

====
